---- MODULE Spec2Model ----
(***************************************************************************)
(* A model of the blog-builder static site generator: builder.py drives a  *)
(* ContentTree (content_tree.py) over PageUnit objects (page_unit.py).     *)
(*                                                                         *)
(* A directory or file name is modelled by the sequence of its             *)
(* dot-separated parts ("1.foo" is <<"1", "foo">>), a path by the sequence *)
(* of its segments, and a path string that may or may not end in '/' by a  *)
(* record [segs, slash].  The source tree, the destination tree and the    *)
(* clock are the environment; the walk, link and render passes are the     *)
(* program.                                                                *)
(***************************************************************************)
EXTENDS Integers, Sequences, FiniteSets, TLC

(* ----------------------------- bounds ---------------------------------- *)

\* number of directories below the source root
NumDirs == 3
\* the latest time of the clock
MaxTime == 2
\* number of builder invocations in one behaviour
MaxRuns == 2
\* the most lines of a content file whose lines are free
MaxLines == 3
\* the most pages of a source tree that is one chain of directories
MaxPages == 22

(* ------------------------ generic helpers ------------------------------ *)

Range(s) == {s[j] : j \in 1..Len(s)}

Last(s) == s[Len(s)]

EmptyMap == [x \in {} |-> x]

\* the members of S as a sequence in ascending order of the integer key K[x]
RECURSIVE SortedSeq(_, _)
SortedSeq(S, K) ==
    IF S = {} THEN <<>>
    ELSE LET m == CHOOSE x \in S : \A y \in S : K[x] <= K[y]
         IN <<m>> \o SortedSeq(S \ {m}, K)

\* lexicographic "less than" on sequences of integers
RECURSIVE LexLess(_, _)
LexLess(a, b) ==
    IF a = <<>> THEN b # <<>>
    ELSE IF b = <<>> THEN FALSE
    ELSE IF Head(a) # Head(b) THEN Head(a) < Head(b)
    ELSE LexLess(Tail(a), Tail(b))

(* --------------------- names, strings and paths ------------------------ *)

\* the strings int() accepts, among the name parts of the model
IntStrings == {"-1", "0", "1", "2"}

\* int(s) for s in IntStrings; any other part raises ValueError
ParseInt(s) ==
    CASE s = "-1" -> -1
      [] s = "0" -> 0
      [] s = "1" -> 1
      [] s = "2" -> 2

\* position of a name part in the ordering of Python strings
PartRank(s) ==
    CASE s = "-1" -> 1
      [] s = "0" -> 4
      [] s = "1" -> 5
      [] s = "2" -> 6
      [] s = "bar" -> 7
      [] s = "blog" -> 8
      [] s = "foo" -> 9
      [] s = "misc" -> 10
      [] s = "t" -> 11
      [] s = "tags" -> 12
      [] s = "u" -> 13
      [] s = "www" -> 14

\* a name as the sequence of the ranks of its parts and dots: '.' (rank 2)
\* sorts before '/' (rank 3), and both before digits and letters
RECURSIVE NameKey(_)
NameKey(name) ==
    IF name = <<>> THEN <<>>
    ELSE IF Len(name) = 1 THEN <<PartRank(name[1])>>
    ELSE <<PartRank(name[1]), 2>> \o NameKey(Tail(name))

RECURSIVE SegsKey(_)
SegsKey(segs) ==
    IF segs = <<>> THEN <<>>
    ELSE IF Len(segs) = 1 THEN NameKey(segs[1])
    ELSE NameKey(segs[1]) \o <<3>> \o SegsKey(Tail(segs))

\* the path string p as a sequence of ranks: every path here starts with '/'
PathKey(p) ==
    <<3>> \o SegsKey(p.segs) \o (IF p.slash THEN <<3>> ELSE <<>>)

\* Python's str.__lt__ on two path strings
StrLess(p, q) == LexLess(PathKey(p), PathKey(q))

\* the empty string, as a path
EmptyPath == [segs |-> <<>>, slash |-> FALSE]

SegPath(name) == [segs |-> <<name>>, slash |-> FALSE]

\* os.path.join(a, b) for a relative b
PathJoin(a, b) ==
    IF a = EmptyPath THEN b
    ELSE [segs |-> a.segs \o b.segs,
          slash |-> IF b.segs = <<>> THEN TRUE ELSE b.slash]

\* s if s ends with '/', else s + '/'
WithSlash(p) == [p EXCEPT !.slash = TRUE]

(* -------------------------- configuration ------------------------------ *)

\* global_dict['html_root'] and global_dict['html_top']: "/blog/", "/www/blog/"
HtmlRoot == [segs |-> << <<"blog">> >>, slash |-> TRUE]
HtmlTop == [segs |-> << <<"www">>, <<"blog">> >>, slash |-> TRUE]

\* global_dict['content_ext'] and global_dict['rss_file']
ContentExt == ".md"
RssFile == "feed.rss"

\* the templates found in global_dict['template_dir']
TemplateDir == {"leaf", "gallery", "tags", "top", "feed_header", "feed_entry"}

(* ------------------------- the file systems ---------------------------- *)

\* dname[d]: the name of directory d; directory 0 is the source root
\* cfiles[d], media[d]: the names of the content and media files in d
\* listing[d]: the subdirectories of d in the order os.walk lists them
\* text[f]: the lines of content file f
\* template_dir: the names of the templates in the template directory
\* src_mtime[f]: the modification time of source file f
\* dest[f]: the [mtime, content] of destination file f, for those that exist
\* fault: the template whose evaluation raises on a context without the key
\*   "summary" ("none" when every template evaluates), and what it raises
\* now: the clock
VARIABLES dname, cfiles, media, listing, text, template_dir, fault, src_mtime,
          dest, now

envVars ==
    <<dname, cfiles, media, listing, text, template_dir, fault, src_mtime>>

Dirs == 1..NumDirs

\* the directory holding d: 1 and 2 lie in the source root, d in d - 2
ParentOf(d) == IF d <= 2 THEN 0 ELSE d - 2

Children(d) == {c \in Dirs : ParentOf(c) = d}

\* the path of directory d relative to the source root, as its segments
RECURSIVE RelPath(_)
RelPath(d) == IF d = 0 THEN <<>> ELSE Append(RelPath(ParentOf(d)), dname[d])

\* os.path.isdir(src_root/path)
IsDir(path) == \E d \in 0..NumDirs : RelPath(d) = path

DirAt(path) == CHOOSE d \in 0..NumDirs : RelPath(d) = path

\* a file: the segments of its directory and its name
File(dir, name) == [dir |-> dir, name |-> name]

NoFile == File(<<>>, "")

\* os.path.splitext(f), and the place of f in a sorted listing
Ext(f) ==
    CASE f = "a.md" -> ".md"
      [] f = "b.md" -> ".md"
      [] f = "img.png" -> ".png"

Root(f) ==
    CASE f = "a.md" -> "a"
      [] f = "b.md" -> "b"
      [] f = "img.png" -> "img"

FileRank ==
    [f \in {"a.md", "b.md", "img.png"} |->
        CASE f = "a.md" -> 1 [] f = "b.md" -> 2 [] f = "img.png" -> 3]

\* os.path.isfile and os.path.getmtime on the destination tree
IsFile(dst, f) == f \in DOMAIN dst

(* ----------------------- PageUnit (page_unit.py) ----------------------- *)

\* a num_slug that numbers every name: one without a numeric prefix gets 0
num_slug_numbers_all(base) ==
    IF Len(base) > 1 /\ base[1] \in IntStrings
    THEN [num |-> ParseInt(base[1]), slug |-> Tail(base)]
    ELSE [num |-> 0, slug |-> base]

\* PageUnit.num_slug on the last segment of a path: split on the first dot
\* and try int() on what precedes it
num_slug(base) ==
    IF Len(base) > 1 /\ base[1] \in IntStrings
    THEN [num |-> ParseInt(base[1]), slug |-> Tail(base)]
    ELSE [num |-> -1, slug |-> base]

\* a get_html_path that keeps every segment as it is
StripSegment_keeps(d) == d

\* the slug PageUnit.get_html_path keeps of one segment
StripSegment(d) ==
    IF Len(d) > 1 /\ d[1] \in IntStrings THEN Tail(d) ELSE d

\* PageUnit.get_html_path: join the stripped segments of rel_path
RECURSIVE get_html_path(_)
get_html_path(rel_path) ==
    IF rel_path = <<>> THEN EmptyPath
    ELSE PathJoin(get_html_path(SubSeq(rel_path, 1, Len(rel_path) - 1)),
                  SegPath(StripSegment(Last(rel_path))))

\* the global dictionary every PageUnit copies into its ldict
GlobalDict == ("title" :> "default_title") @@ ("date" :> "1970-1-1")

\* PageUnit.__init__ for the directory at src_path (segments relative to the
\* source root).  children, parents, level, template_name and template are
\* attributes that populate() creates; until then they hold <<>>, -1 and "".
PageUnit(src_path) ==
    LET ns == num_slug(Last(src_path))
        html_rel == get_html_path(src_path)
    IN [src_path |-> src_path,
        rel_path |-> src_path,
        num |-> ns.num,
        slug |-> ns.slug,
        html_rel_path |-> html_rel,
        dest_path |-> html_rel.segs,
        html_path |-> WithSlash(PathJoin(HtmlRoot, html_rel)),
        is_virtual |-> FALSE,
        title |-> "Lorem Ipsum",
        ldict |-> ("content_html" :> <<>>) @@ GlobalDict,
        subdirs |-> <<>>,
        files |-> <<>>,
        tags |-> <<>>,
        content_file |-> NoFile,
        tagname |-> "",
        fname |-> "index.html",
        modified |-> <<>>,
        children |-> <<>>,
        parents |-> <<>>,
        level |-> -1,
        template_name |-> "",
        template |-> ""]

\* PageUnit.sort_subdirs: by descending index number, later entries first
\* among equal numbers
sort_subdirs(subdirs) ==
    IF Len(subdirs) < 2 THEN subdirs
    ELSE LET n == Len(subdirs)
             key == [j \in 1..n |->
                       0 - (num_slug(subdirs[j]).num * (n + 1) + j)]
             order == SortedSeq(1..n, key)
         IN [j \in 1..n |-> subdirs[order[j]]]

\* str.strip() on the lines, header values and tags of the model
strip(s) ==
    CASE s = "  body" -> "body"
      [] s = " # note" -> "# note"
      [] s = " t" -> "t"
      [] s = " u" -> "u"
      [] s = " " -> ""
      [] OTHER -> s

\* str.startswith('#')
startswith_hash(s) == s \in {"# note", "#tags: u"}

\* line.split(None, 1): the first word of a line and what follows it
split_first(line) ==
    CASE line = "" -> <<>>
      [] line = "body" -> <<"body">>
      [] line = "more text" -> <<"more", "text">>
      [] line = "content:" -> <<"content:">>
      [] line = "content: x" -> <<"content:", "x">>
      [] line = "title: T" -> <<"title:", "T">>
      [] line = "title: U" -> <<"title:", "U">>
      [] line = "date: 2024-01-02" -> <<"date:", "2024-01-02">>
      [] line = "date: 2023-05-05" -> <<"date:", "2023-05-05">>
      [] line = "date: soon" -> <<"date:", "soon">>
      [] line = "summary: S" -> <<"summary:", "S">>
      [] line = "tags: t" -> <<"tags:", "t">>
      [] line = "tags: u" -> <<"tags:", "u">>
      [] line = "tags: t, u" -> <<"tags:", "t, u">>
      [] line = "tags: u, t" -> <<"tags:", "u, t">>
      [] line = "tags: t, t" -> <<"tags:", "t, t">>
      [] line = "tags: t, , u" -> <<"tags:", "t, , u">>
      [] line = "tags:" -> <<"tags:">>
      [] line = "template: default" -> <<"template:", "default">>
      [] line = "template: gallery" -> <<"template:", "gallery">>
      [] line = "template: leaf" -> <<"template:", "leaf">>
      [] line = "template: wide" -> <<"template:", "wide">>
      [] line = "html_path: /x" -> <<"html_path:", "/x">>
      [] line = "permalink: P" -> <<"permalink:", "P">>
      [] line = "parents: p" -> <<"parents:", "p">>
      [] line = "children: c" -> <<"children:", "c">>
      [] line = "level: 9" -> <<"level:", "9">>
      [] line = "content_html: h" -> <<"content_html:", "h">>

\* words[0].endswith(':')
endswith_colon(w) ==
    w \in {"content:", "title:", "date:", "summary:", "tags:", "template:",
           "html_path:", "permalink:", "parents:", "children:", "level:",
           "content_html:"}

\* words[0].rstrip(':')
rstrip_colon(w) ==
    CASE w = "content:" -> "content"
      [] w = "title:" -> "title"
      [] w = "date:" -> "date"
      [] w = "summary:" -> "summary"
      [] w = "tags:" -> "tags"
      [] w = "template:" -> "template"
      [] w = "html_path:" -> "html_path"
      [] w = "permalink:" -> "permalink"
      [] w = "parents:" -> "parents"
      [] w = "children:" -> "children"
      [] w = "level:" -> "level"
      [] w = "content_html:" -> "content_html"

\* '\n'.join(lines): a text is the sequence of its lines, the empty text <<>>
join(lines) == IF lines = <<"">> THEN <<>> ELSE lines

\* a parse_content_file that reads header fields after the sentinel as well
RECURSIVE parse_lines_past_content(_, _, _)
parse_lines_past_content(lines, i, header_dict) ==
    IF i > Len(lines) THEN header_dict
    ELSE LET words == split_first(lines[i])
         IN IF Len(words) > 0 /\ endswith_colon(words[1])
            THEN LET key == rstrip_colon(words[1])
                 IN IF key = "content"
                    THEN ("content_raw" :>
                              join(SubSeq(lines, i + 1, Len(lines))))
                         @@ parse_lines_past_content(lines, i + 1, header_dict)
                    ELSE parse_lines_past_content(lines, i + 1,
                            (key :> IF Len(words) > 1 THEN strip(words[2])
                                    ELSE "") @@ header_dict)
            ELSE parse_lines_past_content(lines, i + 1, header_dict)

\* the second loop of parse_content_file, from line i on
RECURSIVE parse_lines(_, _, _)
parse_lines(lines, i, header_dict) ==
    IF i > Len(lines) THEN header_dict
    ELSE LET words == split_first(lines[i])
         IN IF Len(words) > 0 /\ endswith_colon(words[1])
            THEN LET key == rstrip_colon(words[1])
                 IN IF key = "content"
                    THEN ("content_raw" :>
                              join(SubSeq(lines, i + 1, Len(lines))))
                         @@ header_dict
                    ELSE parse_lines(lines, i + 1,
                            (key :> IF Len(words) > 1 THEN strip(words[2])
                                    ELSE "") @@ header_dict)
            ELSE parse_lines(lines, i + 1, header_dict)

\* the first loop of parse_content_file: the stripped lines but the comments
RECURSIVE read_lines(_)
read_lines(raw) ==
    IF raw = <<>> THEN <<>>
    ELSE IF startswith_hash(strip(Head(raw))) THEN read_lines(Tail(raw))
    ELSE <<strip(Head(raw))>> \o read_lines(Tail(raw))

\* PageUnit.parse_content_file
parse_content_file(file_path) ==
    LET header_dict == ("content_raw" :> <<>>) @@ ("template" :> "default")
    IN IF file_path = NoFile THEN header_dict
       ELSE parse_lines(read_lines(text[file_path]), 1, header_dict)

\* markdown.markdown(raw, extensions=['extra']): the html text of a text
markdown(raw) ==
    IF raw = <<>> THEN <<>> ELSE <<"<p>">> \o raw \o <<"</p>">>

\* populate, lines 251-268: the pages of the numbered subdirectories
RECURSIVE find_children(_, _, _)
find_children(html_path, subdirs, pdict) ==
    IF subdirs = <<>> THEN <<>>
    ELSE LET ns == num_slug(Head(subdirs))
             child_html_path ==
                 WithSlash(PathJoin(html_path, SegPath(ns.slug)))
             rest == find_children(html_path, Tail(subdirs), pdict)
         IN IF ns.num > 0 /\ child_html_path \in DOMAIN pdict
            THEN <<pdict[child_html_path]>> \o rest
            ELSE rest

\* a populate that looks up the proper prefixes of html_rel_path only
find_parents_proper(html_rel_path, pdict) ==
    LET slugs == html_rel_path.segs
        prefix(j) == [segs |-> WithSlash(HtmlRoot).segs \o SubSeq(slugs, 1, j),
                      slash |-> TRUE]
        hits == {j \in 1..(Len(slugs) - 1) : prefix(j) \in DOMAIN pdict}
    IN [j \in 1..Cardinality(hits) |->
           pdict[prefix(SortedSeq(hits, [h \in hits |-> h])[j])]]

\* populate, lines 270-290: the pages at the prefixes of html_rel_path
find_parents(html_rel_path, pdict) ==
    LET slugs == html_rel_path.segs
        prefix(j) == [segs |-> WithSlash(HtmlRoot).segs \o SubSeq(slugs, 1, j),
                      slash |-> TRUE]
        hits == {j \in 1..Len(slugs) : prefix(j) \in DOMAIN pdict}
    IN [j \in 1..Cardinality(hits) |->
           pdict[prefix(SortedSeq(hits, [h \in hits |-> h])[j])]]

\* str.split(',') on the tags headers of the model
split_comma(s) ==
    CASE s = "t" -> <<"t">>
      [] s = "u" -> <<"u">>
      [] s = "t, u" -> <<"t", " u">>
      [] s = "u, t" -> <<"u", " t">>
      [] s = "t, t" -> <<"t", " t">>
      [] s = "t, , u" -> <<"t", " ", " u">>

\* populate, line 327: the trimmed items that are not empty, in order
RECURSIVE stripped_items(_)
stripped_items(items) ==
    IF items = <<>> THEN <<>>
    ELSE IF strip(Head(items)) = "" THEN stripped_items(Tail(items))
    ELSE <<strip(Head(items))>> \o stripped_items(Tail(items))

\* populate, lines 323-327: the tags of the page's tags header
extract_tags(ldict) ==
    IF "tags" \in DOMAIN ldict /\ ldict["tags"] # ""
    THEN stripped_items(split_comma(ldict["tags"]))
    ELSE <<>>

\* a populate that takes no notice of the template header
choose_template_by_children(ldict, children) ==
    IF Len(children) > 0 THEN "gallery" ELSE "leaf"

\* populate, lines 314-321: the name of the template to look up
choose_template(ldict, children) ==
    IF ldict["template"] = "default"
    THEN IF Len(children) > 0 THEN "gallery" ELSE "leaf"
    ELSE ldict["template"]

\* a header value held under the key html_path, in the form paths have here:
\* its segments and whether it ends with a separator
header_values(header_dict) ==
    [key \in DOMAIN header_dict |->
        IF key = "html_path" /\ header_dict[key] = "/x"
        THEN [segs |-> <<<<"x">>>>, slash |-> FALSE]
        ELSE header_dict[key]]

\* populate, lines 249-312: html_path and keywords are set in the context,
\* then ldict.update(hdict) puts every header field over them
merge_header(ldict, header_dict, html_path) ==
    header_values(header_dict) @@ ("keywords" :> "no keywords found")
        @@ ("html_path" :> html_path) @@ ldict

\* PageUnit.populate, when the template or the "leaf" fallback is loaded
populate(page, tdict, pdict) ==
    LET children == find_children(page.html_path, page.subdirs, pdict)
        parents == find_parents(page.html_rel_path, pdict)
        hdict == parse_content_file(page.content_file)
        ldict1 == merge_header(page.ldict, hdict, page.html_path)
        ptags == extract_tags(ldict1)
        name == choose_template(ldict1, children)
        ldict2 == ("permalink" :> <<"http://rotormind.com", page.html_path>>)
                  @@ ("children" :> children)
                  @@ ("parents" :> parents) @@ ("tags" :> ptags)
                  @@ ("level" :> Len(parents))
                  @@ ("content_html" :> markdown(ldict1["content_raw"]))
                  @@ ldict1
    IN [page EXCEPT !.children = children,
                    !.parents = parents,
                    !.level = Len(parents),
                    !.template_name = name,
                    !.template = IF name \in tdict THEN name ELSE "leaf",
                    !.tags = ptags,
                    !.title = ldict1["title"],
                    !.ldict = ldict2]

\* a populate that goes on without a template
leaf_missing_ignored(page, tdict, pdict) == FALSE

\* populate, lines 360-365: neither the chosen template nor "leaf" is loaded
leaf_missing(page, tdict, pdict) ==
    /\ populate(page, tdict, pdict).template_name \notin tdict
    /\ "leaf" \notin tdict

(* ------------------------- rendering a page ---------------------------- *)

\* what a destination file holds: the output of template.render(**ldict), a
\* copy of source file src, or, for a file no invocation wrote, anything
Html(template, ldict) ==
    [kind |-> "html", template |-> template, ldict |-> ldict, src |-> NoFile]

CopyOf(src) ==
    [kind |-> "copy", template |-> "", ldict |-> EmptyMap, src |-> src]

Unknown ==
    [kind |-> "unknown", template |-> "", ldict |-> EmptyMap, src |-> NoFile]

NoFault == [template |-> "none", error |-> "NameError"]

\* template.render(**ldict) of a template loaded with strict_undefined: "ok",
\* or the exception it raises
evaluate(template, ldict) ==
    IF template = fault.template /\ "summary" \notin DOMAIN ldict
    THEN fault.error ELSE "ok"

\* the extensions PageUnit.copy_media copies, and those it lists as images
all_media_extensions ==
    {".jpg", ".jpeg", ".png", ".gif", ".webp", ".svg", ".mp3", ".mp4",
     ".html", ".pdf", ".fcstd", ".css", ".py"}

image_extensions == {".jpg", ".jpeg", ".png", ".gif", ".webp", ".svg"}

js_like_extensions == {".js", ".pde", ".class"}

\* shutil.copy2(src, dest_file_path), recorded: the copy keeps the source's
\* modification time.  st is [dest, modified, written]
copy2(st, src, dest_file_path) ==
    [dest |-> (dest_file_path :> [mtime |-> src_mtime[src],
                                  content |-> CopyOf(src)]) @@ st.dest,
     modified |-> Append(st.modified, dest_file_path),
     written |-> st.written
                 \cup {[file |-> dest_file_path, content |-> CopyOf(src)]}]

\* PageUnit.copy_if_newer
copy_if_newer(st, src, dest_dir) ==
    LET dest_file_path == File(dest_dir, src.name)
    IN IF IsFile(st.dest, dest_file_path)
       THEN IF src_mtime[src] > st.dest[dest_file_path].mtime
            THEN copy2(st, src, dest_file_path)
            ELSE st
       ELSE copy2(st, src, dest_file_path)

\* the loop of PageUnit.copy_media over the files todo of directory src_path
RECURSIVE copy_files(_, _, _, _)
copy_files(st, src_path, todo, dest_dir) ==
    IF todo = <<>> THEN st
    ELSE LET f_name == Head(todo)
             st1 == IF Ext(f_name) \in all_media_extensions
                    THEN copy_if_newer(st, File(src_path, f_name), dest_dir)
                    ELSE st
             st2 == IF Ext(f_name) \in js_like_extensions
                    THEN copy_if_newer(st1, File(src_path, f_name), dest_dir)
                    ELSE st1
         IN copy_files(st2, src_path, Tail(todo), dest_dir)

\* the files of directory d as os.listdir gives them
ListDir(d) == SortedSeq(cfiles[d] \cup media[d], FileRank)

\* the names in files with an extension in exts, in order, without those
\* in the set except
RECURSIVE with_ext(_, _, _)
with_ext(files, exts, except) ==
    IF files = <<>> THEN <<>>
    ELSE IF Ext(Head(files)) \in exts /\ Root(Head(files)) \notin except
         THEN <<Head(files)>> \o with_ext(Tail(files), exts, except)
         ELSE with_ext(Tail(files), exts, except)

\* a render that skips a page only when its output is strictly newer
render_skips_older_only(page, dst, inc) ==
    LET dest_file == File(page.dest_path, page.fname)
        src_file == page.content_file
    IN /\ inc
       /\ IsFile(dst, dest_file)
       /\ src_file # NoFile
       /\ src_mtime[src_file] < dst[dest_file].mtime

\* a render that makes the test of lines 401-404 in full mode as well
render_skips_any_mode(page, dst, inc) ==
    LET dest_file == File(page.dest_path, page.fname)
        src_file == page.content_file
    IN /\ IsFile(dst, dest_file)
       /\ src_file # NoFile
       /\ src_mtime[src_file] <= dst[dest_file].mtime

\* PageUnit.render, lines 399-404: an incremental build leaves the page alone
render_skips(page, dst, inc) ==
    LET dest_file == File(page.dest_path, page.fname)
        src_file == page.content_file
    IN /\ inc
       /\ IsFile(dst, dest_file)
       /\ src_file # NoFile
       /\ src_mtime[src_file] <= dst[dest_file].mtime

\* a render that writes the page's file before it evaluates the template
render_raised_after_write(page, st, dest_file, e) ==
    [page |-> [page EXCEPT !.modified = Append(st.modified, dest_file)],
     dest |-> (dest_file :> [mtime |-> now, content |-> Unknown]) @@ st.dest,
     written |-> st.written \cup {[file |-> dest_file, content |-> Unknown]},
     raised |-> e]

\* render, lines 442-455: the template raises e, after the media copy st
render_raised(page, st, dest_file, e) ==
    [page |-> [page EXCEPT !.modified = st.modified],
     dest |-> st.dest,
     written |-> st.written,
     raised |-> e]

\* PageUnit.render: the page, the destination tree and the writes afterwards,
\* and the exception it raises ("none" when it returns)
render(page, dst, wr, inc) ==
    LET dest_file == File(page.dest_path, page.fname)
        has_media == ~page.is_virtual /\ IsDir(page.src_path)
        files == IF has_media THEN ListDir(DirAt(page.src_path)) ELSE <<>>
        st0 == [dest |-> dst, modified |-> page.modified, written |-> wr]
        st1 == copy_files(st0, page.src_path, files, page.dest_path)
        ldict == ("images" :> with_ext(files, image_extensions, {"thumb"}))
                 @@ ("js_files" :> with_ext(files, js_like_extensions, {}))
                 @@ page.ldict
        html == Html(page.template, ldict)
    IN IF render_skips(page, dst, inc)
       THEN [page |-> page, dest |-> dst, written |-> wr, raised |-> "none"]
       ELSE IF evaluate(page.template, ldict) # "ok"
       THEN render_raised([page EXCEPT !.ldict = ldict], st1, dest_file,
                          evaluate(page.template, ldict))
       ELSE [page |-> [page EXCEPT !.ldict = ldict,
                                   !.modified = Append(st1.modified, dest_file)],
             dest |-> (dest_file :> [mtime |-> now, content |-> html])
                          @@ st1.dest,
             written |-> st1.written
                         \cup {[file |-> dest_file, content |-> html]},
             raised |-> "none"]

(* --------------------- ContentTree (content_tree.py) ------------------- *)

\* pc: where the builder is ("idle" between invocations)
\* incremental, dry_run: the command line flags of the invocation
\* template_dict: the names of the loaded templates
\* walk_todo: the directories os.walk has still to yield, next first
\* pages: the PageUnits in discovery order; a PageUnit is named by its index
\* page_dict: html_path -> index into pages
\* k: the index of the next page of the running loop
\* level1, level2: indices into pages
\* tags: the tag index, a sequence of [tag, pages] in dictionary order
\* tag_pages: the virtual PageUnits of the tags
\* tag_dict: a sequence of [tag, page], page an index into tag_pages
\* top_page: <<>> for None, else a one-element sequence holding the PageUnit
\* updated, updated_tags: the files and tags touched by this invocation
VARIABLES pc, incremental, dry_run, template_dict, walk_todo, pages, page_dict,
          k, level1, level2, tags, tag_pages, tag_dict, top_page,
          updated, updated_tags

\* run: the number of finished invocations
\* written: the [file, content] writes of the running (or last) invocation
\* started: that invocation's mode, the destination tree and the source
\*   modification times it found and, once it is over, the destination tree
\*   it left
\* prev: the same of the invocation before it, with its writes
VARIABLES run, written, started, prev

treeVars == <<pages, page_dict, level1, level2, tags, tag_pages, tag_dict,
              top_page>>

histVars == <<run, written, started, prev>>

vars == <<dname, cfiles, media, listing, text, template_dir, fault, src_mtime, dest,
          now,
          pc, incremental, dry_run, template_dict, walk_todo, pages, page_dict,
          k, level1, level2, tags, tag_pages, tag_dict, top_page,
          updated, updated_tags, run, written, started, prev>>

\* an add_page that keeps the first PageUnit registered for an html_path
add_page_keeps_first(st, path, cf, subdirs, files) ==
    LET punit == PageUnit(path)
        page == [punit EXCEPT !.content_file = File(path, cf),
                              !.subdirs = sort_subdirs(subdirs),
                              !.files = files]
    IN IF punit.num < 0 THEN st
       ELSE [pages |-> Append(st.pages, page),
             page_dict |-> st.page_dict
                               @@ (punit.html_path :> (Len(st.pages) + 1))]

\* ContentTree.add_page on the state st = [pages, page_dict]
add_page(st, path, cf, subdirs, files) ==
    LET punit == PageUnit(path)
        page == [punit EXCEPT !.content_file = File(path, cf),
                              !.subdirs = sort_subdirs(subdirs),
                              !.files = files]
    IN IF punit.num < 0 THEN st
       ELSE [pages |-> Append(st.pages, page),
             page_dict |-> (punit.html_path :> (Len(st.pages) + 1))
                               @@ st.page_dict]

\* the loop of slurp_walk over the sorted files of one directory
RECURSIVE slurp_files(_, _, _, _, _)
slurp_files(st, path, todo, subdirs, files) ==
    IF todo = <<>> THEN st
    ELSE LET cf == Head(todo)
             st1 == IF Ext(cf) = ContentExt
                    THEN add_page(st, path, cf, subdirs, files)
                    ELSE st
         IN slurp_files(st1, path, Tail(todo), subdirs, files)

\* builder.py main: the flags are read and the ContentTree is constructed
StartRun ==
    /\ pc \in {"idle", "raised"}
    /\ run < MaxRuns
    /\ \E inc \in BOOLEAN :
          /\ incremental' = inc
          /\ started' = [mode |-> IF dry_run THEN "dry"
                                  ELSE IF inc THEN "incremental" ELSE "full",
                         dest |-> dest,
                         src |-> src_mtime,
                         left |-> dest]
    /\ template_dict' = template_dir
    /\ pages' = <<>>
    /\ page_dict' = EmptyMap
    /\ tag_pages' = <<>>
    /\ tag_dict' = <<>>
    /\ tags' = <<>>
    /\ level1' = <<>>
    /\ level2' = <<>>
    /\ top_page' = <<>>
    /\ updated' = <<>>
    /\ updated_tags' = {}
    /\ walk_todo' = <<0>>
    /\ k' = 1
    /\ pc' = "walk"
    /\ written' = {}
    /\ prev' = [mode |-> started.mode, dest |-> started.dest,
                src |-> started.src, left |-> started.left,
                written |-> written]
    /\ UNCHANGED <<envVars, dest, now, dry_run, run>>

\* one iteration of the os.walk loop of ContentTree.slurp_walk
SlurpWalkDir ==
    /\ pc = "walk"
    /\ walk_todo # <<>>
    /\ LET d == Head(walk_todo)
           subdirs == [j \in 1..Len(listing[d]) |-> dname[listing[d][j]]]
           files == SortedSeq(cfiles[d] \cup media[d], FileRank)
           st == slurp_files([pages |-> pages, page_dict |-> page_dict],
                             RelPath(d), files, subdirs, files)
       IN /\ pages' = st.pages
          /\ page_dict' = st.page_dict
          /\ walk_todo' = listing[d] \o Tail(walk_todo)
    /\ pc' = IF walk_todo' = <<>> THEN "populate" ELSE "walk"
    /\ UNCHANGED <<envVars, dest, now, incremental, dry_run, template_dict, k,
                   level1, level2, tags, tag_pages, tag_dict, top_page,
                   updated, updated_tags, histVars>>

\* a list of pages left in the order it was built in
sort_pages_unsorted(seq, pgs) == seq

\* list.sort() on a list of pages: a stable sort by PageUnit.__lt__, which
\* compares the html_path strings
RECURSIVE sort_pages(_, _)
sort_pages(seq, pgs) ==
    IF Len(seq) < 2 THEN seq
    ELSE LET front == sort_pages(SubSeq(seq, 1, Len(seq) - 1), pgs)
             x == Last(seq)
             before == {j \in 1..Len(front) :
                          StrLess(pgs[x].html_path, pgs[front[j]].html_path)}
             pos == IF before = {} THEN Len(front) + 1
                    ELSE CHOOSE j \in before : \A i \in before : j <= i
         IN SubSeq(front, 1, pos - 1) \o <<x>> \o SubSeq(front, pos, Len(front))

\* a munge_loop that puts the deeper pages into a bucket as well
RECURSIVE pages_at_level_or_deeper(_, _)
pages_at_level_or_deeper(pgs, lvl) ==
    IF pgs = <<>> THEN <<>>
    ELSE LET rest == pages_at_level_or_deeper(SubSeq(pgs, 1, Len(pgs) - 1), lvl)
         IN IF Last(pgs).level >= lvl THEN Append(rest, Len(pgs)) ELSE rest

\* munge_loop, lines 200-204: the indices j of pgs, in order, with
\* pgs[j].level = lvl
RECURSIVE pages_at_level(_, _)
pages_at_level(pgs, lvl) ==
    IF pgs = <<>> THEN <<>>
    ELSE LET rest == pages_at_level(SubSeq(pgs, 1, Len(pgs) - 1), lvl)
         IN IF Last(pgs).level = lvl THEN Append(rest, Len(pgs)) ELSE rest

RECURSIVE pages_with_tag(_, _)
pages_with_tag(pgs, t) ==
    IF pgs = <<>> THEN <<>>
    ELSE LET rest == pages_with_tag(SubSeq(pgs, 1, Len(pgs) - 1), t)
             n == Cardinality({j \in 1..Len(Last(pgs).tags) :
                                 Last(pgs).tags[j] = t})
         IN rest \o [j \in 1..n |-> Len(pgs)]

\* munge_loop, lines 200-221: the tag index, its keys and lists sorted
tag_index(pgs) ==
    LET found == UNION {Range(pgs[j].tags) : j \in 1..Len(pgs)}
        keys == SortedSeq(found, [t \in found |-> PartRank(t)])
    IN [j \in 1..Len(keys) |->
           [tag |-> keys[j],
            pages |-> sort_pages(pages_with_tag(pgs, keys[j]), pgs)]]

\* urllib.parse.quote_plus on the tags of the model
quote_plus(t) ==
    CASE t = "t" -> "t"
      [] t = "u" -> "u"

\* f"Posts tagged with '{t}'"
tag_title(t) ==
    CASE t = "t" -> "Posts tagged with 't'"
      [] t = "u" -> "Posts tagged with 'u'"

\* the body of the loop of ContentTree.make_tag_pages
make_tag_page(t, val) ==
    LET slug == quote_plus(t)
        punit == PageUnit(<< <<"tags">>, <<slug>> >>)
        html_path == PathJoin(PathJoin(HtmlRoot, SegPath(<<"tags">>)),
                              SegPath(<<slug>>))
    IN [punit EXCEPT
          !.slug = <<slug>>,
          !.fname = "index.html",
          !.tagname = t,
          !.html_rel_path = PathJoin(SegPath(<<"tags">>), SegPath(<<slug>>)),
          !.html_path = html_path,
          !.dest_path = << <<"tags">>, <<slug>> >>,
          !.ldict = ("html_path" :> html_path) @@ ("page_path" :> html_path)
                    @@ ("tagname" :> t) @@ ("children" :> val)
                    @@ ("title" :> tag_title(t)) @@ punit.ldict]

\* ContentTree.make_top_page, when a "top" template is loaded
make_top_page(lvl1) ==
    LET punit == PageUnit(HtmlTop.segs)
    IN [punit EXCEPT
          !.template = "top",
          !.fname = "index.html",
          !.html_rel_path = EmptyPath,
          !.html_path = HtmlTop,
          !.dest_path = <<>>,
          !.ldict = ("children" :> lvl1) @@ ("title" :> "Waxing Prolix")
                    @@ punit.ldict]

\* one call of populate in the first loop of ContentTree.munge_loop; without
\* a usable template the process exits
Populate ==
    /\ pc = "populate"
    /\ k <= Len(pages)
    /\ IF leaf_missing(pages[k], template_dict, page_dict)
       THEN /\ pc' = "exit"
            /\ UNCHANGED <<pages, k>>
       ELSE /\ pages' = [pages EXCEPT
                           ![k] = populate(pages[k], template_dict, page_dict)]
            /\ k' = k + 1
            /\ pc' = "populate"
    /\ UNCHANGED <<envVars, dest, now, incremental, dry_run, template_dict,
                   walk_todo, page_dict, level1, level2, tags, tag_pages,
                   tag_dict, top_page, updated, updated_tags, histVars>>

\* the rest of ContentTree.munge_loop, from its second loop on, with
\* make_tag_pages and make_top_page; a dry run ends here
MungeIndex ==
    /\ pc = "populate"
    /\ k > Len(pages)
    /\ LET lvl1 == sort_pages(pages_at_level(pages, 1), pages)
           index == tag_index(pages)
       IN /\ level1' = lvl1
          /\ level2' = sort_pages(pages_at_level(pages, 2), pages)
          /\ tags' = index
          /\ tag_pages' = [j \in 1..Len(index) |->
                              make_tag_page(index[j].tag, index[j].pages)]
          /\ tag_dict' = [j \in 1..Len(index) |->
                             [tag |-> index[j].tag, page |-> j]]
          /\ top_page' = IF "top" \in template_dict
                         THEN <<make_top_page(lvl1)>> ELSE <<>>
    /\ k' = 1
    /\ pc' = IF dry_run THEN "idle" ELSE "dump"
    /\ run' = IF dry_run THEN run + 1 ELSE run
    /\ UNCHANGED <<envVars, dest, now, incremental, dry_run, template_dict,
                   walk_todo, pages, page_dict, updated, updated_tags,
                   written, started, prev>>

\* the context dump_loop adds to a page before rendering it
dump_context(page) ==
    [page EXCEPT !.ldict = ("tag_dict" :> tag_dict) @@ ("level1" :> level1)
                           @@ ("level2" :> level2) @@ page.ldict]

\* str.lower on the tags of the model
lower(t) ==
    CASE t = "t" -> "t"
      [] t = "u" -> "u"

\* dump_loop, line 334: tag_dict sorted by lower-cased tag
DumpStart ==
    /\ pc = "dump"
    /\ LET n == Len(tag_dict)
           key == [j \in 1..n |-> PartRank(lower(tag_dict[j].tag)) * (n + 1) + j]
           order == SortedSeq(1..n, key)
       IN tag_dict' = [j \in 1..n |-> tag_dict[order[j]]]
    /\ k' = 1
    /\ pc' = "dump_pages"
    /\ UNCHANGED <<envVars, dest, now, incremental, dry_run, template_dict,
                   walk_todo, pages, page_dict, level1, level2, tags,
                   tag_pages, top_page, updated, updated_tags, histVars>>

\* a dump_loop that marks the tags of every page, rendered or not
tags_updated_always(upd, page) == upd \cup Range(page.tags)

\* dump_loop, lines 342-345: the tags of a page that wrote a file are updated
tags_updated(upd, page) ==
    IF Len(page.modified) > 0 THEN upd \cup Range(page.tags) ELSE upd

\* builder.py main catches nothing: an exception ends the invocation where
\* it is raised
aborted(left) ==
    /\ pc' = "raised"
    /\ run' = run + 1
    /\ started' = [started EXCEPT !.left = left]

\* one iteration of the first loop of ContentTree.dump_loop (lines 337-345)
RenderPage ==
    /\ pc = "dump_pages"
    /\ k <= Len(pages)
    /\ LET r == render(dump_context(pages[k]), dest, written, incremental)
       IN /\ pages' = [pages EXCEPT ![k] = r.page]
          /\ dest' = r.dest
          /\ written' = r.written
          /\ IF r.raised # "none"
             THEN /\ aborted(dest')
                  /\ UNCHANGED <<updated, updated_tags, k>>
             ELSE /\ updated' = IF Len(r.page.modified) > 0
                                THEN updated \o r.page.modified ELSE updated
                  /\ updated_tags' = tags_updated(updated_tags, r.page)
                  /\ k' = k + 1
                  /\ UNCHANGED <<pc, run, started>>
    /\ UNCHANGED <<envVars, now, incremental, dry_run, template_dict,
                   walk_todo, page_dict, level1, level2, tags, tag_pages,
                   tag_dict, top_page, prev>>

\* a dump_loop that may leave its first loop after the first page
pages_loop_done_early(kk, pgs) == kk > 1

\* dump_loop, line 337: the for loop has gone through self.pages
pages_loop_done(kk, pgs) == kk > Len(pgs)

\* the first loop of dump_loop is over
PagesDone ==
    /\ pc = "dump_pages"
    /\ pages_loop_done(k, pages)
    /\ k' = 1
    /\ pc' = "dump_tags"
    /\ UNCHANGED <<envVars, dest, now, incremental, dry_run, template_dict,
                   walk_todo, treeVars, updated, updated_tags, histVars>>

\* one iteration of the second loop of ContentTree.dump_loop (lines 348-366)
RenderTagPage ==
    /\ pc = "dump_tags"
    /\ k <= Len(tag_pages)
    /\ LET punit == [dump_context(tag_pages[k]) EXCEPT !.template = "tags"]
           r == render(punit, dest, written, incremental)
       IN IF incremental /\ punit.tagname \notin updated_tags
          THEN /\ tag_pages' = [tag_pages EXCEPT ![k] = punit]
               /\ k' = k + 1
               /\ UNCHANGED <<dest, written, updated, pc, run, started>>
          ELSE /\ tag_pages' = [tag_pages EXCEPT ![k] = r.page]
               /\ dest' = r.dest
               /\ written' = r.written
               /\ IF r.raised # "none"
                  THEN /\ aborted(dest')
                       /\ UNCHANGED <<updated, k>>
                  ELSE /\ updated' =
                            IF incremental
                            THEN Append(updated,
                                        File(punit.dest_path, punit.fname))
                            ELSE updated
                       /\ k' = k + 1
                       /\ UNCHANGED <<pc, run, started>>
    /\ UNCHANGED <<envVars, now, incremental, dry_run, template_dict,
                   walk_todo, pages, page_dict, level1, level2, tags,
                   tag_dict, top_page, updated_tags, prev>>

\* the end of dump_loop (lines 372-380): the top page, when there is one
RenderTopPage ==
    /\ pc = "dump_tags"
    /\ k > Len(tag_pages)
    /\ IF top_page # <<>>
       THEN LET r == render(dump_context(top_page[1]), dest, written,
                            incremental)
            IN /\ top_page' = <<r.page>>
               /\ dest' = r.dest
               /\ written' = r.written
               /\ IF r.raised # "none"
                  THEN /\ aborted(dest')
                       /\ UNCHANGED <<updated, k>>
                  ELSE /\ updated' = IF Len(r.page.modified) > 0
                                     THEN updated \o r.page.modified
                                     ELSE updated
                       /\ k' = 1
                       /\ pc' = "rss"
                       /\ UNCHANGED <<run, started>>
       ELSE /\ k' = 1
            /\ pc' = "rss"
            /\ UNCHANGED <<top_page, dest, written, updated, run, started>>
    /\ UNCHANGED <<envVars, now, incremental, dry_run, template_dict,
                   walk_todo, pages, page_dict, level1, level2, tags,
                   tag_pages, tag_dict, updated_tags, prev>>

\* generate_rss, line 408
max_rss_entries == 20

\* _get_sortable_date_or_log_error: the day a date string parses to, and the
\* epoch for one that does not parse
sortable_date(date_string) ==
    CASE strip(date_string) = "1970-1-1" -> 0
      [] strip(date_string) = "2023-05-05" -> 19482
      [] strip(date_string) = "2024-01-02" -> 19724
      [] OTHER -> 0

\* a generate_rss that takes the pages in the order of the walk
sort_by_date_unsorted(seq, pgs) == seq

\* sorted(pages, key=date, reverse=True): stable, latest date first
RECURSIVE sort_by_date(_, _)
sort_by_date(seq, pgs) ==
    IF Len(seq) < 2 THEN seq
    ELSE LET front == sort_by_date(SubSeq(seq, 1, Len(seq) - 1), pgs)
             x == Last(seq)
             date(j) == sortable_date(pgs[j].ldict["date"])
             before == {j \in 1..Len(front) : date(front[j]) < date(x)}
             pos == IF before = {} THEN Len(front) + 1
                    ELSE CHOOSE j \in before : \A i \in before : j <= i
         IN SubSeq(front, 1, pos - 1) \o <<x>> \o SubSeq(front, pos, Len(front))

\* the pages generate_rss renders an entry for, in feed order
rss_entries(pgs) ==
    LET sorted == sort_by_date([j \in 1..Len(pgs) |-> j], pgs)
    IN SubSeq(sorted, 1, IF Len(sorted) < max_rss_entries
                         THEN Len(sorted) ELSE max_rss_entries)

\* generate_rss, lines 415-420: the exceptions of an entry that the except
\* clause lets through
rss_propagated(e) == e \notin {"ok", "TemplateRuntimeError"}

\* the exception generate_rss raises, "none" when it returns
rss_raises(pgs) ==
    LET entries == rss_entries(pgs)
        bad == {j \in 1..Len(entries) :
                  rss_propagated(evaluate("feed_entry", pgs[entries[j]].ldict))}
    IN IF evaluate("feed_header", GlobalDict) # "ok"
       THEN evaluate("feed_header", GlobalDict)
       ELSE IF bad = {} THEN "none"
       ELSE evaluate("feed_entry",
                     pgs[entries[CHOOSE j \in bad : \A i \in bad : j <= i]].ldict)

\* the pages whose entry is in the feed, in feed order
rss_rendered(pgs) ==
    LET rendered(j) == evaluate("feed_entry", pgs[j].ldict) = "ok"
    IN SelectSeq(rss_entries(pgs), rendered)

\* builder.py, lines 134-146: ContentTree.generate_rss, and the invocation ends
GenerateRss ==
    /\ pc = "rss"
    /\ IF "feed_header" \in template_dict /\ "feed_entry" \in template_dict
       THEN LET rss_path == File(<<>>, RssFile)
                rss_xml == Html("feed_header",
                                ("entries" :> rss_rendered(pages)) @@ GlobalDict)
            IN IF rss_raises(pages) # "none"
               THEN UNCHANGED <<dest, written>>
               ELSE /\ dest' = (rss_path :> [mtime |-> now,
                                             content |-> rss_xml]) @@ dest
                    /\ written' = written \cup {[file |-> rss_path,
                                                 content |-> rss_xml]}
       ELSE UNCHANGED <<dest, written>>
    /\ pc' = IF /\ "feed_header" \in template_dict
                /\ "feed_entry" \in template_dict
                /\ rss_raises(pages) # "none"
             THEN "raised" ELSE "idle"
    /\ run' = run + 1
    /\ started' = [started EXCEPT !.left = dest']
    /\ UNCHANGED <<envVars, now, incremental, dry_run, template_dict,
                   walk_todo, treeVars, k, updated, updated_tags, prev>>

(* --------------------------- the environment --------------------------- *)

\* between two invocations one content file is edited, later than every
\* write so far
Touch ==
    /\ pc = "idle"
    /\ run >= 1
    /\ run < MaxRuns
    /\ now < MaxTime
    /\ src_mtime = started.src
    /\ now' = now + 1
    /\ \E f \in {g \in DOMAIN src_mtime : Ext(g.name) = ContentExt} :
          src_mtime' = [src_mtime EXCEPT ![f] = now']
    /\ UNCHANGED <<dname, cfiles, media, listing, text, template_dir, fault,
                   dest, pc,
                   incremental, dry_run, template_dict, walk_todo, treeVars, k,
                   updated, updated_tags, histVars>>

\* between two invocations the destination tree is put back as the last
\* invocation found it
Restore ==
    /\ pc = "idle"
    /\ run >= 1
    /\ run < MaxRuns
    /\ dest # started.dest
    /\ dest' = started.dest
    /\ UNCHANGED <<envVars, now, pc, incremental, dry_run, template_dict,
                   walk_todo, treeVars, k, updated, updated_tags, histVars>>

\* the content files an edit leaves behind
EditTexts == {<<>>, <<"tags: t">>, <<"tags: u">>, <<"title: T">>}

\* between two invocations one content file is rewritten, later than every
\* write so far
Edit ==
    /\ pc = "idle"
    /\ run >= 1
    /\ run < MaxRuns
    /\ now < MaxTime
    /\ src_mtime = started.src
    /\ now' = now + 1
    /\ \E f \in {g \in DOMAIN src_mtime : Ext(g.name) = ContentExt} :
          /\ src_mtime' = [src_mtime EXCEPT ![f] = now']
          /\ \E t \in EditTexts : text' = [text EXCEPT ![f] = t]
    /\ UNCHANGED <<dname, cfiles, media, listing, template_dir, fault,
                   dest, pc,
                   incremental, dry_run, template_dict, walk_todo, treeVars, k,
                   updated, updated_tags, histVars>>

(* -------------------------- initial states ----------------------------- *)

N_1foo == <<"1", "foo">>
N_2foo == <<"2", "foo">>
N_1bar == <<"1", "bar">>
N_misc == <<"misc">>
N_12foo == <<"1", "2", "foo">>
N_foobar == <<"foo", "bar">>
N_tags == <<"tags">>
N_t == <<"t">>
N_www == <<"www">>
N_blog == <<"blog">>
N_0bar == <<"0", "bar">>

\* no two directories in one directory have the same name
DistinctSiblings(names) ==
    \A c, d \in Dirs : c # d /\ ParentOf(c) = ParentOf(d) => names[c] # names[d]

ContentFiles == {File(RelPath(d), f) : d \in Dirs, f \in {"a.md", "b.md"}}

SourceFiles ==
    UNION {{File(RelPath(d), f) : f \in cfiles[d] \cup media[d]} : d \in Dirs}

\* what holds before the first invocation, whatever the source tree
InitProgram ==
    /\ pc = "idle"
    /\ incremental = FALSE
    /\ template_dict = {}
    /\ walk_todo = <<>>
    /\ pages = <<>>
    /\ page_dict = EmptyMap
    /\ k = 1
    /\ level1 = <<>>
    /\ level2 = <<>>
    /\ tags = <<>>
    /\ tag_pages = <<>>
    /\ tag_dict = <<>>
    /\ top_page = <<>>
    /\ updated = <<>>
    /\ updated_tags = {}
    /\ written = {}
    /\ started = [mode |-> "none", dest |-> dest, src |-> src_mtime,
                  left |-> dest]
    /\ prev = [mode |-> "none", dest |-> dest, src |-> src_mtime,
               left |-> dest, written |-> {}]
    /\ now = 1

\* two pages next to each other, with one content file and one image each,
\* in front of a destination tree some earlier invocation left behind
Init ==
    /\ dry_run = FALSE
    /\ \E n2 \in {N_2foo, N_1bar} :
          dname = [d \in Dirs |-> IF d = 1 THEN N_1foo
                                  ELSE IF d = 2 THEN n2 ELSE N_misc]
    /\ cfiles = [d \in 0..NumDirs |-> IF d \in {1, 2} THEN {"a.md"} ELSE {}]
    /\ media = [d \in 0..NumDirs |-> IF d \in {1, 2} THEN {"img.png"} ELSE {}]
    /\ listing = [d \in 0..NumDirs |->
                     SortedSeq(Children(d), [c \in Children(d) |-> c])]
    /\ \E t2 \in {<<>>, <<"tags: t">>, <<"tags: u">>} :
          text = [f \in ContentFiles |->
                    IF f.dir = RelPath(1) THEN <<"tags: t">> ELSE t2]
    /\ \E m \in [{File(RelPath(d), "a.md") : d \in {1, 2}} -> {0, 1}] :
          src_mtime = [f \in SourceFiles |-> IF f \in DOMAIN m THEN m[f] ELSE 1]
    /\ LET index == {File(get_html_path(RelPath(d)).segs, "index.html") :
                         d \in {1, 2}}
           copies == {File(get_html_path(RelPath(d)).segs, "img.png") :
                         d \in {d \in {1, 2} : media[d] # {}}}
       IN \E have \in SUBSET index, copied \in {{}, copies} :
             \E m \in [have \cup copied -> {0, 1}] :
                /\ \A f, g \in copied : m[f] = m[g]
                /\ dest = [f \in have \cup copied |->
                             [mtime |-> m[f], content |-> Unknown]]
    /\ template_dir = TemplateDir
    /\ fault = NoFault
    /\ run = 0
    /\ InitProgram

\* the content files whose header names a key of the context that the link
\* pass derives
ContextTexts ==
    {<<>>, <<"html_path: /x">>, <<"permalink: P">>, <<"parents: p">>,
     <<"children: c">>, <<"level: 9">>, <<"content_html: h">>,
     <<"tags: u">>, <<"level: 9", "content:", "body">>}

\* a page 1.foo whose content file is one of the texts above, with or
\* without a page 1.foo/1.bar below it, beside a page 2.foo or 1.bar tagged
\* 't', in front of an empty destination or of the page's own index file
InitContext ==
    /\ dry_run = FALSE
    /\ \E n2 \in {N_2foo, N_1bar} :
          dname = [d \in Dirs |-> IF d = 1 THEN N_1foo
                                  ELSE IF d = 2 THEN n2
                                  ELSE IF d = 3 THEN N_1bar ELSE N_misc]
    /\ \E below \in {{}, {"a.md"}} :
          cfiles = [d \in 0..NumDirs |-> IF d \in {1, 2} THEN {"a.md"}
                                         ELSE IF d = 3 THEN below ELSE {}]
    /\ media = [d \in 0..NumDirs |-> {}]
    /\ listing = [d \in 0..NumDirs |->
                     SortedSeq(Children(d), [c \in Children(d) |-> c])]
    /\ \E t1 \in ContextTexts :
          text = [f \in ContentFiles |->
                    IF f.dir = RelPath(1) THEN t1
                    ELSE IF f.dir = RelPath(2) THEN <<"tags: t">> ELSE <<>>]
    /\ src_mtime = [f \in SourceFiles |-> 1]
    /\ \E have \in BOOLEAN :
          dest = IF have
                 THEN (File(get_html_path(RelPath(1)).segs, "index.html")
                          :> [mtime |-> 0, content |-> Unknown])
                 ELSE EmptyMap
    /\ template_dir = TemplateDir
    /\ fault = NoFault
    /\ run = MaxRuns - 1
    /\ InitProgram

\* two pages next to each other, 1.foo and 1.bar, with or without the tag
\* 't', in front of an empty destination: the first invocation builds the
\* tree the second one finds
InitEdit ==
    /\ dry_run = FALSE
    /\ dname = [d \in Dirs |-> IF d = 1 THEN N_1foo
                               ELSE IF d = 2 THEN N_1bar ELSE N_misc]
    /\ cfiles = [d \in 0..NumDirs |-> IF d \in {1, 2} THEN {"a.md"} ELSE {}]
    /\ media = [d \in 0..NumDirs |-> {}]
    /\ listing = [d \in 0..NumDirs |->
                     SortedSeq(Children(d), [c \in Children(d) |-> c])]
    /\ \E t1, t2 \in {<<>>, <<"tags: t">>} :
          text = [f \in ContentFiles |->
                    IF f.dir = RelPath(1) THEN t1 ELSE t2]
    /\ src_mtime = [f \in SourceFiles |-> 0]
    /\ dest = EmptyMap
    /\ template_dir = TemplateDir
    /\ fault = NoFault
    /\ run = 0
    /\ InitProgram

\* any source tree of the names below, in front of an empty destination: the
\* last invocation of a behaviour, made with --dry_run
InitDry ==
    /\ dry_run = TRUE
    /\ dname \in {names \in [Dirs -> {N_1foo, N_2foo, N_misc, N_12foo,
                                       N_foobar}] :
                     DistinctSiblings(names)}
    /\ cfiles \in {c \in [0..NumDirs -> {{}, {"a.md"}, {"a.md", "b.md"}}] :
                      c[0] = {}}
    /\ media = [d \in 0..NumDirs |-> {}]
    /\ listing = [d \in 0..NumDirs |->
                     SortedSeq(Children(d), [c \in Children(d) |-> c])]
    /\ text = [f \in ContentFiles |->
                 IF f.name = "a.md" THEN <<"tags: t">> ELSE <<"tags: u">>]
    /\ src_mtime = [f \in SourceFiles |-> 0]
    /\ dest = EmptyMap
    /\ template_dir = TemplateDir
    /\ fault = NoFault
    /\ run = MaxRuns - 1
    /\ InitProgram

\* the lines a content file is made of when its lines are free
FreeLines ==
    {"title: T", "tags: u", "content:", "  body", "# note", " # note", ""}

\* the sequences over S of length n at most
RECURSIVE SeqsUpTo(_, _)
SeqsUpTo(S, n) ==
    IF n = 0 THEN {<<>>}
    ELSE LET shorter == SeqsUpTo(S, n - 1)
         IN shorter \cup {Append(q, x) : q \in shorter, x \in S}

\* the content files that are one header, or a tags and a template header
HeaderTexts ==
    LET tag_lines == {"tags: t", "tags: t, u", "tags: u, t", "tags: t, t",
                      "tags: t, , u", "tags:"}
        template_lines == {"template: default", "template: gallery",
                           "template: leaf", "template: wide"}
    IN {<<l>> : l \in tag_lines \cup template_lines}
       \cup {<<"tags: t", l>> : l \in template_lines}

\* one page, 1.foo, with any content file of the texts above; when the file
\* is made of headers the page is with or without a page below it and the
\* gallery template is there or not: the last invocation of a behaviour,
\* made with --dry_run
InitParse ==
    /\ dry_run = TRUE
    /\ cfiles = [d \in 0..NumDirs |-> IF d \in {1, 3} THEN {"a.md"} ELSE {}]
    /\ media = [d \in 0..NumDirs |-> {}]
    /\ \E lines \in SeqsUpTo(FreeLines, MaxLines) \cup HeaderTexts :
          /\ \E n3 \in IF lines \in HeaderTexts THEN {N_1bar, N_misc}
                        ELSE {N_1bar} :
                dname = [d \in Dirs |-> IF d = 1 THEN N_1foo
                                        ELSE IF d = 3 THEN n3 ELSE N_misc]
          /\ text = [f \in ContentFiles |->
                       IF f = File(RelPath(1), "a.md") THEN lines ELSE <<>>]
          /\ template_dir \in
                IF lines \in HeaderTexts
                THEN {TemplateDir, TemplateDir \ {"gallery"}}
                ELSE {TemplateDir}
    /\ listing = [d \in 0..NumDirs |->
                     SortedSeq(Children(d), [c \in Children(d) |-> c])]
    /\ fault = NoFault
    /\ src_mtime = [f \in SourceFiles |-> 0]
    /\ dest = EmptyMap
    /\ run = MaxRuns - 1
    /\ InitProgram

\* the templates that can be at fault, and what their evaluation raises
Faults ==
    {NoFault}
    \cup [template : {"leaf", "gallery", "tags", "top", "feed_header",
                      "feed_entry"},
          error : {"NameError", "TemplateRuntimeError"}]

\* the content files of the pages that are rendered with a template at fault
FaultTexts ==
    {<<"tags: t">>, <<"summary: S">>, <<"summary: S", "tags: t">>,
     <<"date: 2024-01-02">>}

\* three pages, 1.foo with 1.bar below it and 1.bar next to it, each with a
\* content file and the upper two with an image, an empty destination tree
\* and one template that may be at fault
InitFault ==
    /\ dry_run = FALSE
    /\ dname = [d \in Dirs |-> IF d = 1 THEN N_1foo
                               ELSE IF d \in {2, 3} THEN N_1bar ELSE N_misc]
    /\ cfiles = [d \in 0..NumDirs |-> IF d \in {1, 2, 3} THEN {"a.md"} ELSE {}]
    /\ media = [d \in 0..NumDirs |-> IF d \in {1, 2} THEN {"img.png"} ELSE {}]
    /\ listing = [d \in 0..NumDirs |->
                     SortedSeq(Children(d), [c \in Children(d) |-> c])]
    /\ text \in [ContentFiles -> FaultTexts]
    /\ \A f \in ContentFiles : f \notin SourceFiles => text[f] = <<"tags: t">>
    /\ template_dir = TemplateDir
    /\ fault \in Faults
    /\ src_mtime = [f \in SourceFiles |-> 0]
    /\ dest = EmptyMap
    /\ run = 0
    /\ InitProgram

\* the directory j levels down a chain of directories that are all named 1.foo
ChainPath(j) == [i \in 1..j |-> N_1foo]

\* slurp_walk over a chain of n directories with a content file a.md each
RECURSIVE slurp_chain(_, _)
slurp_chain(j, n) ==
    IF j = 0 THEN [pages |-> <<>>, page_dict |-> EmptyMap]
    ELSE add_page(slurp_chain(j - 1, n), ChainPath(j), "a.md",
                  IF j < n THEN <<N_1foo>> ELSE <<>>, <<"a.md">>)

\* the date headers of the content files
DateLines ==
    {<<>>, <<"date: 2024-01-02">>, <<"date: 2023-05-05">>, <<"date: soon">>}

\* a full invocation after its walk over a chain of n page directories, more
\* than the feed has room for or fewer; the first, the second and the last
\* page have any date header, the first a tag as well, the others are of
\* 2023-05-05.  The directory variables are those of an empty tree: of the
\* chain the state holds the content files and what the walk made of them.
InitRss ==
    /\ dry_run = FALSE
    /\ incremental = FALSE
    /\ dname = [d \in Dirs |-> N_misc]
    /\ cfiles = [d \in 0..NumDirs |-> {}]
    /\ media = [d \in 0..NumDirs |-> {}]
    /\ listing = [d \in 0..NumDirs |->
                     SortedSeq(Children(d), [c \in Children(d) |-> c])]
    /\ template_dir = TemplateDir
    /\ template_dict = TemplateDir
    /\ fault = NoFault
    /\ dest = EmptyMap
    /\ now = 1
    /\ \E n \in {2} \cup (MaxPages - 2)..MaxPages :
          /\ \E first, second, last \in DateLines :
                text = [f \in {File(ChainPath(j), "a.md") : j \in 1..n} |->
                          IF f.dir = ChainPath(1) THEN <<"tags: t">> \o first
                          ELSE IF f.dir = ChainPath(2) /\ n > 2 THEN second
                          ELSE IF f.dir = ChainPath(n) THEN last
                          ELSE <<"date: 2023-05-05">>]
          /\ src_mtime = [f \in {File(ChainPath(j), "a.md") : j \in 1..n}
                            |-> 0]
          /\ pages = slurp_chain(n, n).pages
          /\ page_dict = slurp_chain(n, n).page_dict
    /\ pc = "populate"
    /\ k = 1
    /\ walk_todo = <<>>
    /\ level1 = <<>>
    /\ level2 = <<>>
    /\ tags = <<>>
    /\ tag_pages = <<>>
    /\ tag_dict = <<>>
    /\ top_page = <<>>
    /\ updated = <<>>
    /\ updated_tags = {}
    /\ written = {}
    /\ run = MaxRuns - 1
    /\ started = [mode |-> "full", dest |-> dest, src |-> src_mtime,
                  left |-> dest]
    /\ prev = [mode |-> "none", dest |-> dest, src |-> src_mtime,
               left |-> dest, written |-> {}]

\* one tagged page, 1.foo, next to a directory that is no page and has a
\* directory in it: tags/t, www/blog or another, with or without an image
InitVirtual ==
    /\ dry_run = FALSE
    /\ \E n1 \in {N_tags, N_www, N_misc}, n3 \in {N_t, N_blog} :
          dname = [d \in Dirs |-> IF d = 1 THEN n1
                                  ELSE IF d = 2 THEN N_1foo
                                  ELSE IF d = 3 THEN n3 ELSE N_misc]
    /\ cfiles = [d \in 0..NumDirs |-> IF d = 2 THEN {"a.md"} ELSE {}]
    /\ \E m2, m3 \in {{}, {"img.png"}} :
          media = [d \in 0..NumDirs |-> IF d = 2 THEN m2
                                        ELSE IF d = 3 THEN m3 ELSE {}]
    /\ listing = [d \in 0..NumDirs |->
                     SortedSeq(Children(d), [c \in Children(d) |-> c])]
    /\ \E lines \in {<<"tags: t">>, <<>>} :
          text = [f \in ContentFiles |-> lines]
    /\ template_dir = TemplateDir
    /\ fault = NoFault
    /\ src_mtime = [f \in SourceFiles |-> 0]
    /\ dest = EmptyMap
    /\ run = 0
    /\ InitProgram

\* any tree of directories with the index 0, 1, 2 or none, each with a
\* content file or without: the last invocation of a behaviour, made with
\* --dry_run
InitLink ==
    /\ dry_run = TRUE
    /\ dname \in {names \in [Dirs -> {N_1foo, N_2foo, N_0bar, N_1bar, N_misc}] :
                     DistinctSiblings(names)}
    /\ cfiles \in {c \in [0..NumDirs -> {{}, {"a.md"}}] : c[0] = {}}
    /\ media = [d \in 0..NumDirs |-> {}]
    /\ listing = [d \in 0..NumDirs |->
                     SortedSeq(Children(d), [c \in Children(d) |-> c])]
    /\ text = [f \in ContentFiles |-> <<>>]
    /\ template_dir = TemplateDir
    /\ fault = NoFault
    /\ src_mtime = [f \in SourceFiles |-> 0]
    /\ dest = EmptyMap
    /\ run = MaxRuns - 1
    /\ InitProgram

\* the content files that are a template header or empty
TemplateTexts ==
    {<<>>, <<"template: wide">>, <<"template: gallery">>, <<"template: leaf">>}

\* three pages, 1.foo with 1.bar below it and a tagged 1.bar next to it, any
\* template header in each, and a template directory with or without
\* leaf.html and gallery.html; one invocation
InitTemplates ==
    /\ dry_run = FALSE
    /\ dname = [d \in Dirs |-> IF d = 1 THEN N_1foo
                               ELSE IF d \in {2, 3} THEN N_1bar ELSE N_misc]
    /\ cfiles = [d \in 0..NumDirs |-> IF d \in {1, 2, 3} THEN {"a.md"} ELSE {}]
    /\ media = [d \in 0..NumDirs |-> {}]
    /\ listing = [d \in 0..NumDirs |->
                     SortedSeq(Children(d), [c \in Children(d) |-> c])]
    /\ \E lines \in [1..3 -> TemplateTexts] :
          text = [f \in ContentFiles |->
                    IF f = File(RelPath(1), "a.md") THEN lines[1]
                    ELSE IF f = File(RelPath(2), "a.md")
                    THEN <<"tags: t">> \o lines[2]
                    ELSE IF f = File(RelPath(3), "a.md") THEN lines[3]
                    ELSE <<>>]
    /\ \E missing \in SUBSET {"leaf", "gallery"} :
          template_dir = TemplateDir \ missing
    /\ fault = NoFault
    /\ src_mtime = [f \in SourceFiles |-> 0]
    /\ dest = EmptyMap
    /\ run = MaxRuns - 1
    /\ InitProgram

(* --------------------------- specifications ---------------------------- *)

\* the builder with the --dry_run flag
NextDry == StartRun \/ SlurpWalkDir \/ Populate \/ MungeIndex

SpecDry == InitDry /\ [][NextDry]_vars

\* the same builder on the source trees of InitParse
SpecParse == InitParse /\ [][NextDry]_vars

\* invocations over a source tree and a destination tree nobody else touches
NextRun ==
    \/ StartRun
    \/ SlurpWalkDir
    \/ Populate
    \/ MungeIndex
    \/ DumpStart
    \/ RenderPage
    \/ PagesDone
    \/ RenderTagPage
    \/ RenderTopPage
    \/ GenerateRss

SpecFault == InitFault /\ [][NextRun]_vars

SpecVirtual == InitVirtual /\ [][NextRun]_vars

SpecLink == InitLink /\ [][NextDry]_vars

SpecTemplates == InitTemplates /\ [][NextRun]_vars

SpecContext == InitContext /\ [][NextRun]_vars

NextEdit == NextRun \/ Edit

SpecEdit == InitEdit /\ [][NextEdit]_vars

\* the link pass, the render pass and the feed of one invocation
NextRss ==
    \/ Populate
    \/ MungeIndex
    \/ DumpStart
    \/ RenderPage
    \/ PagesDone
    \/ RenderTagPage
    \/ RenderTopPage
    \/ GenerateRss

SpecRss == InitRss /\ [][NextRss]_vars

Next ==
    \/ StartRun
    \/ SlurpWalkDir
    \/ Populate
    \/ MungeIndex
    \/ DumpStart
    \/ RenderPage
    \/ PagesDone
    \/ RenderTagPage
    \/ RenderTopPage
    \/ GenerateRss
    \/ Touch
    \/ Restore

Spec == Init /\ [][Next]_vars

(* ------------------------ the walk (slurp_walk) ------------------------ *)

\* the running or last invocation has finished its walk
Walked == started.mode # "none" /\ pc # "walk"

\* the running or last invocation has finished munge_loop as well
Linked == Walked /\ pc # "populate"

PageIdx == 1..Len(pages)

\* the entries of pages made for directory d
PagesOf(d) == {j \in PageIdx : pages[j].src_path = RelPath(d)}

\* the directory names of the form <int>.<slug>
NumberedNames == {N_1foo, N_2foo, N_1bar, N_12foo}

\* the content file of directory d that sorts first
FirstContent(d) ==
    CHOOSE f \in cfiles[d] : \A g \in cfiles[d] : FileRank[f] <= FileRank[g]

\* C6: a numbered directory holding more than one content file gets exactly
\* one PageUnit, whose content file is the first of them in sorted order, and
\* that PageUnit is the one page_dict holds.
C6_FirstContentFileWins ==
    Walked =>
       \A d \in Dirs :
          dname[d] \in NumberedNames /\ Cardinality(cfiles[d]) > 1 =>
             /\ Cardinality(PagesOf(d)) = 1
             /\ \A j \in PagesOf(d) :
                   /\ pages[j].content_file = File(RelPath(d), FirstContent(d))
                   /\ page_dict[pages[j].html_path] = j

\* C7: a directory whose name is not <int>.<slug> gets no PageUnit, and a
\* numbered directory with a content file gets one wherever it lies, below an
\* unnumbered directory included.
C7_UnnumberedSkippedButDescended ==
    Walked =>
       \A d \in Dirs :
          /\ dname[d] \notin NumberedNames =>
                /\ PagesOf(d) = {}
                /\ \A h \in DOMAIN page_dict :
                      pages[page_dict[h]].src_path # RelPath(d)
          /\ dname[d] \in NumberedNames /\ cfiles[d] # {} => PagesOf(d) # {}

\* an unnumbered directory with a content file of its own got no page, and
\* the numbered directory below it did
C7_Witness ==
    /\ Walked
    /\ dname[1] \notin NumberedNames
    /\ cfiles[1] # {}
    /\ PagesOf(1) = {}
    /\ PagesOf(3) # {}

\* a segment that starts with <int>.
HasNumericPrefix(seg) == Len(seg) > 1 /\ seg[1] \in IntStrings

\* C8 as stated: no segment of a page's html_path starts with <int>.
C8_NoNumericPrefix ==
    Walked =>
       \A j \in PageIdx :
          \A i \in 1..Len(pages[j].html_path.segs) :
             ~HasNumericPrefix(pages[j].html_path.segs[i])

\* a directory name without its one leading <int>.
OnceStripped(name) ==
    IF name \in {N_1foo, N_2foo} THEN <<"foo">>
    ELSE IF name = N_1bar THEN <<"bar">>
    ELSE IF name = N_12foo THEN <<"2", "foo">>
    ELSE name

\* C8, amended: a page's html_path is the html root joined with the segments
\* of its relative path, each without its one leading <int>. (so 1.2.foo
\* gives 2.foo), and ends with a slash.
C8_HtmlPathStripped ==
    Walked =>
       \A j \in PageIdx :
          pages[j].html_path =
             [segs |-> HtmlRoot.segs \o
                          [i \in 1..Len(pages[j].src_path) |->
                              OnceStripped(pages[j].src_path[i])],
              slash |-> TRUE]

\* a page two directories deep, both numbered, the lower one named 1.2.foo
C8_Witness ==
    /\ Walked
    /\ \E j \in PageIdx :
          /\ Len(pages[j].src_path) = 2
          /\ pages[j].src_path[1] \in NumberedNames
          /\ pages[j].src_path[2] = N_12foo

\* every PageUnit the tree holds: real pages, tag pages, top page
AllUnits == pages \o tag_pages \o top_page

\* C9: after walk and link no two PageUnits have the same html_path, and
\* every entry of pages is the one page_dict holds for its html_path.
C9_HtmlPathsUnique ==
    Linked =>
       /\ \A i, j \in 1..Len(AllUnits) :
             i # j => AllUnits[i].html_path # AllUnits[j].html_path
       /\ \A j \in PageIdx : page_dict[pages[j].html_path] = j

\* C10: of the PageUnits registered with one html_path, page_dict holds the
\* one registered last, and every registered PageUnit is in pages.
C10_LastRegistrationWins ==
    Walked =>
       /\ \A j \in PageIdx :
             /\ pages[j].html_path \in DOMAIN page_dict
             /\ \A i \in PageIdx :
                   pages[i].html_path = pages[j].html_path =>
                      i <= page_dict[pages[j].html_path]
             /\ pages[page_dict[pages[j].html_path]].html_path
                   = pages[j].html_path
       /\ \A d \in Dirs :
             dname[d] \in NumberedNames =>
                Cardinality(PagesOf(d)) = Cardinality(cfiles[d])

\* two directories gave the same html_path: both are in pages and page_dict
\* holds the second
C10_Witness ==
    /\ Walked
    /\ \E i, j \in PageIdx :
          /\ i < j
          /\ pages[i].src_path # pages[j].src_path
          /\ pages[i].html_path = pages[j].html_path
          /\ page_dict[pages[j].html_path] = j

(* ----------------------- the renders (dump_loop) ----------------------- *)

\* the file render writes for a PageUnit
DestFile(page) == File(page.dest_path, page.fname)

\* the PageUnit wrote its file in the running or last invocation
Rendered(page) == DestFile(page) \in Range(page.modified)

\* the running or last invocation is incremental, the one before it was
\* full, and nothing was changed between them
AfterFullUnchanged ==
    /\ prev.mode = "full"
    /\ started.mode = "incremental"
    /\ started.src = prev.src
    /\ started.dest = prev.left

\* C1 as stated: an incremental invocation after a full one, nothing changed
\* in between, writes no file and leaves modified empty for every PageUnit,
\* tag pages and top page included.
C1_WritesNothing ==
    AfterFullUnchanged =>
       /\ written = {}
       /\ \A i \in 1..Len(AllUnits) : AllUnits[i].modified = <<>>

\* C1, amended: such an invocation writes no file but the top page's and the
\* feed, which it writes again, and leaves modified empty for every real
\* page and every tag page.
C1_WritesTopAndFeedOnly ==
    AfterFullUnchanged =>
       /\ \A e \in written :
             \/ e.file = File(<<>>, RssFile)
             \/ top_page # <<>> /\ e.file = DestFile(top_page[1])
       /\ \A j \in PageIdx : pages[j].modified = <<>>
       /\ \A j \in 1..Len(tag_pages) : tag_pages[j].modified = <<>>
       /\ pc \in {"rss", "idle"} /\ top_page # <<>> =>
             /\ Rendered(top_page[1])
             /\ \E e \in written : e.file = DestFile(top_page[1])
       /\ pc = "idle" => \E e \in written : e.file = File(<<>>, RssFile)

\* the incremental invocation after an unchanged full one is over; there
\* were two real pages and a tag page to skip
C1_Witness ==
    /\ AfterFullUnchanged
    /\ pc = "idle"
    /\ Len(pages) = 2
    /\ tag_pages # <<>>
    /\ top_page # <<>>

\* C2: render of a real page writes the page in full mode always, and in
\* incremental mode exactly when its destination file is missing or older
\* than its content file; otherwise it changes nothing.
C2_RenderDecision ==
    [][pc = "dump_pages" /\ k <= Len(pages) =>
          LET f == DestFile(pages[k])
              due == \/ ~incremental
                     \/ f \notin DOMAIN dest
                     \/ src_mtime[pages[k].content_file] > dest[f].mtime
          IN IF due
             THEN /\ f \in DOMAIN dest'
                  /\ dest'[f].mtime = now
                  /\ dest'[f].content.kind = "html"
                  /\ Rendered(pages'[k])
                  /\ \E e \in written' :
                        e.file = f /\ e.content = dest'[f].content
             ELSE /\ dest' = dest
                  /\ written' = written
                  /\ pages'[k].modified = <<>>]_vars

\* an incremental invocation has skipped a page whose file is exactly as old
\* as its content file, and rendered one whose file was older
C2_Witness ==
    /\ incremental
    /\ pc = "dump_tags"
    /\ \E i, j \in PageIdx :
          /\ ~Rendered(pages[i])
          /\ DestFile(pages[i]) \in DOMAIN started.dest
          /\ started.dest[DestFile(pages[i])].mtime
                = src_mtime[pages[i].content_file]
          /\ Rendered(pages[j])
          /\ DestFile(pages[j]) \in DOMAIN started.dest
          /\ started.dest[DestFile(pages[j])].mtime
                < src_mtime[pages[j].content_file]

\* C3: render of a real page in an incremental invocation copies every media
\* file of the page's directory whose copy is missing or older, whatever the
\* age of the page's own file.
C3_MediaCopiedWhenStale ==
    [][pc = "dump_pages" /\ k <= Len(pages) /\ incremental =>
          \A m \in media[DirAt(pages[k].src_path)] :
             LET s == File(pages[k].src_path, m)
                 d == File(pages[k].dest_path, m)
             IN d \notin DOMAIN dest \/ dest[d].mtime < src_mtime[s] =>
                   /\ d \in DOMAIN dest'
                   /\ dest'[d] = [mtime |-> src_mtime[s],
                                  content |-> CopyOf(s)]]_vars

\* C4: the second loop of dump_loop writes a tag page in full mode always,
\* and in incremental mode exactly when a real page carrying the tag wrote
\* its file earlier in the invocation; otherwise it changes nothing.
C4_TagPageDecision ==
    [][pc = "dump_tags" /\ k <= Len(tag_pages) =>
          LET f == DestFile(tag_pages[k])
              t == tag_pages[k].tagname
              due == \/ ~incremental
                     \/ \E j \in PageIdx :
                           t \in Range(pages[j].tags) /\ Rendered(pages[j])
          IN IF due
             THEN /\ f \in DOMAIN dest'
                  /\ dest'[f].mtime = now
                  /\ dest'[f].content.kind = "html"
                  /\ dest'[f].content.template = "tags"
                  /\ Rendered(tag_pages'[k])
             ELSE /\ dest' = dest
                  /\ written' = written
                  /\ tag_pages'[k].modified = <<>>]_vars

\* an incremental invocation has written one tag page and skipped another
C4_Witness ==
    /\ incremental
    /\ pc = "rss"
    /\ \E i, j \in 1..Len(tag_pages) :
          /\ Rendered(tag_pages[i])
          /\ ~Rendered(tag_pages[j])

\* C5: an incremental invocation writes nothing that a full invocation on
\* the same source and destination trees did not write, with that content.
C5_IncrementalSubsetOfFull ==
    /\ prev.mode = "full"
    /\ started.mode = "incremental"
    /\ started.src = prev.src
    /\ started.dest = prev.dest
    => written \subseteq prev.written

(* ------------------- the content file (populate) ----------------------- *)

\* populate has been called on pages[j] in the running or last invocation
Populated(j) ==
    Walked /\ j \in PageIdx /\ (pc \notin {"populate", "exit"} \/ k > j)

\* the lines of the content file of pages[j]
LinesOf(j) == text[pages[j].content_file]

TemplateLines ==
    {"template: default", "template: gallery", "template: leaf",
     "template: wide"}

\* the value of the last template header of a file without sentinel, "none"
\* when it has none
ExplicitTemplate(lines) ==
    LET at == {i \in 1..Len(lines) : lines[i] \in TemplateLines}
        last == CHOOSE i \in at : \A h \in at : h <= i
    IN IF at = {} THEN "none"
       ELSE CASE lines[last] = "template: default" -> "default"
              [] lines[last] = "template: gallery" -> "gallery"
              [] lines[last] = "template: leaf" -> "leaf"
              [] lines[last] = "template: wide" -> "wide"

\* C11 as stated: without a template header a page gets "leaf" when it has
\* no children and "gallery" when it has some; with one it gets the template
\* the header names.
C11_TemplateByHeaderOrChildren ==
    \A j \in PageIdx :
       Populated(j) =>
          LET e == ExplicitTemplate(LinesOf(j))
          IN pages[j].template =
                IF e # "none" THEN e
                ELSE IF pages[j].children = <<>> THEN "leaf" ELSE "gallery"

\* C11, amended: without a template header, or with the header value
\* "default", a page selects "leaf" when it has no children and "gallery"
\* when it has some; with another header value it selects that name; it gets
\* the selected template when that one is loaded and "leaf" when it is not.
C11_TemplateSelection ==
    \A j \in PageIdx :
       Populated(j) =>
          LET e == ExplicitTemplate(LinesOf(j))
              name == IF e \in {"none", "default"}
                      THEN IF pages[j].children = <<>> THEN "leaf"
                           ELSE "gallery"
                      ELSE e
          IN /\ pages[j].template_name = name
             /\ pages[j].template =
                   IF name \in template_dir THEN name ELSE "leaf"

\* a page without children whose header names "gallery" got that template
C11_Witness ==
    \E j \in PageIdx :
       /\ Populated(j)
       /\ ExplicitTemplate(LinesOf(j)) = "gallery"
       /\ "gallery" \in template_dir
       /\ pages[j].children = <<>>
       /\ pages[j].template = "gallery"

\* the index of the first line of a file that is the content sentinel, 0
\* when it has none
FirstSentinel(lines) ==
    LET at == {i \in 1..Len(lines) : lines[i] = "content:"}
    IN IF at = {} THEN 0 ELSE CHOOSE i \in at : \A h \in at : i <= h

\* the lines in front of the sentinel, all of them when there is none
HeaderPart(lines) ==
    IF FirstSentinel(lines) = 0 THEN lines
    ELSE SubSeq(lines, 1, FirstSentinel(lines) - 1)

\* the lines behind the sentinel
BodyPart(lines) ==
    IF FirstSentinel(lines) = 0 THEN <<>>
    ELSE SubSeq(lines, FirstSentinel(lines) + 1, Len(lines))

\* the line does not begin with '#'
NoHash(line) == line \notin {"# note", "#tags: u"}

\* the line does not begin with '#' once it is stripped
NoHashStripped(line) == NoHash(strip(line))

\* the header fields of the model's free lines are the ones the lines in
\* front of the sentinel give
HeaderFromFront(j) ==
    LET front == Range(HeaderPart(LinesOf(j)))
    IN /\ pages[j].title = IF "title: T" \in front THEN "T"
                           ELSE "default_title"
       /\ pages[j].tags = IF "tags: u" \in front THEN <<"u">> ELSE <<>>

\* C12 as stated: the raw body is the lines behind the first content line
\* as they stand in the file, but those that begin with '#'; the header
\* fields come from the lines in front of it alone.
C12_BodyIsLinesAfterSentinel ==
    \A j \in PageIdx :
       Populated(j) /\ LinesOf(j) \in SeqsUpTo(FreeLines, MaxLines) =>
          /\ pages[j].ldict["content_raw"]
                = join(SelectSeq(BodyPart(LinesOf(j)), NoHash))
          /\ HeaderFromFront(j)

\* C12, amended: the raw body is the stripped lines behind the first content
\* line, but those that begin with '#' once stripped; the header fields come
\* from the lines in front of it alone.
C12_BodyIsStrippedLinesAfterSentinel ==
    \A j \in PageIdx :
       Populated(j) /\ LinesOf(j) \in SeqsUpTo(FreeLines, MaxLines) =>
          LET body == SelectSeq(BodyPart(LinesOf(j)), NoHashStripped)
          IN /\ pages[j].ldict["content_raw"]
                   = join([i \in 1..Len(body) |-> strip(body[i])])
             /\ HeaderFromFront(j)

\* a file whose sentinel is followed by a tags line and an indented line:
\* both are body, and the page has no tag
C12_Witness ==
    \E j \in PageIdx :
       /\ Populated(j)
       /\ LinesOf(j) = <<"content:", "tags: u", "  body">>
       /\ pages[j].ldict["content_raw"] = <<"tags: u", "body">>
       /\ pages[j].tags = <<>>

TagLines ==
    {"tags: t", "tags: u", "tags: t, u", "tags: u, t", "tags: t, t",
     "tags: t, , u", "tags:"}

\* the tags of a tags header as an ordered set
OrderedSetOf(line) ==
    CASE line \in {"tags: t", "tags: t, t"} -> <<"t">>
      [] line = "tags: u" -> <<"u">>
      [] line \in {"tags: t, u", "tags: t, , u"} -> <<"t", "u">>
      [] line = "tags: u, t" -> <<"u", "t">>
      [] line = "tags:" -> <<>>

\* C13: the tags of a page are the trimmed, non-empty items of its tags
\* header in the header's order, each once, and the page is in the tag
\* index at most once under each tag.
C13_TagsOrderedSet ==
    Linked =>
       \A j \in PageIdx :
          /\ LinesOf(j) # <<>> /\ LinesOf(j)[1] \in TagLines
                /\ FirstSentinel(LinesOf(j)) = 0 =>
                pages[j].tags = OrderedSetOf(LinesOf(j)[1])
          /\ \A a, b \in 1..Len(pages[j].tags) :
                a # b => pages[j].tags[a] # pages[j].tags[b]
          /\ \A i \in 1..Len(tags) :
                Cardinality({h \in 1..Len(tags[i].pages) :
                               tags[i].pages[h] = j}) <= 1

(* --------------------------- the tag index ----------------------------- *)

\* the pages of the list are in the order of their html paths
SortedByHtmlPath(seq) ==
    \A a, b \in 1..Len(seq) :
       a < b => ~StrLess(pages[seq[b]].html_path, pages[seq[a]].html_path)

ContextKeys ==
    {"html_path", "permalink", "title", "tags", "parents", "children",
     "tag_dict", "level1", "level2", "content_html", "images"}

\* the files written from a page template, the feed apart
RenderedPages ==
    {w \in written : w.content.kind = "html"
                        /\ w.content.template # "feed_header"}

\* C15: the context every page is rendered with (real page, tag page, top
\* page) has the keys html_path, permalink, title, tags, parents, children,
\* tag_dict, level1, level2, content_html and images.
C15_ContextHasAllKeys ==
    \A w \in RenderedPages : ContextKeys \subseteq DOMAIN w.content.ldict

(* ----------------------- a template that raises ------------------------ *)

\* dump_loop has given the page its context: its render decision is taken
Decided(page) == "tag_dict" \in DOMAIN page.ldict

RssPath == File(<<>>, RssFile)

\* neither decided nor rendered
Untouched(page) == ~Decided(page) /\ page.modified = <<>>

\* C16: when the evaluation of a page's template raises, the render pass
\* ends there: the page's file is not written and not in its modified list,
\* no later page, tag page or top page is processed, no feed is written, and
\* the files of the destination tree stay as they are; the invocation does
\* nothing after it.
C16_FailedRenderAborts ==
    [][/\ pc \in {"dump_pages", "dump_tags"} /\ pc' = "raised" =>
            LET unit == IF pc = "dump_pages" THEN pages'[k]
                        ELSE IF k <= Len(tag_pages) THEN tag_pages'[k]
                        ELSE top_page'[1]
                file == DestFile(unit)
            IN /\ file \in DOMAIN dest' => file \in DOMAIN dest
               /\ \A w \in written' \ written : w.file # file
               /\ file \notin Range(unit.modified)
               /\ \A j \in 1..Len(pages) :
                     pc = "dump_pages" /\ j > k =>
                        pages'[j] = pages[j] /\ Untouched(pages[j])
               /\ \A j \in 1..Len(tag_pages) :
                     pc = "dump_pages" \/ j > k =>
                        tag_pages'[j] = tag_pages[j] /\ Untouched(tag_pages[j])
               /\ \A j \in 1..Len(top_page) :
                     pc = "dump_pages" \/ k <= Len(tag_pages) =>
                        top_page'[j] = top_page[j] /\ Untouched(top_page[j])
               /\ \A w \in written' : w.file # RssPath
               /\ \A f \in DOMAIN dest :
                     f \in DOMAIN dest' /\ dest'[f] = dest[f]
               /\ updated' = updated
       /\ pc = "raised" => pc' = "walk" /\ dest' = dest /\ run' = run
      ]_vars

\* the template of a page after the first raised: the files of the pages
\* before it are there, its own is not though its image is, and no tag page
\* has been looked at
C16_Witness ==
    /\ pc = "raised"
    /\ k \in 2..Len(pages)
    /\ \A j \in 1..(k - 1) :
          Rendered(pages[j]) /\ DestFile(pages[j]) \in DOMAIN dest
    /\ Decided(pages[k])
    /\ DestFile(pages[k]) \notin DOMAIN dest
    /\ File(pages[k].dest_path, "img.png") \in DOMAIN dest
    /\ Len(tag_pages) > 0
    /\ \A j \in 1..Len(tag_pages) : Untouched(tag_pages[j])

\* C18: when the feed-entry template raises for a page, whatever it raises,
\* the feed is written, with the entries of the other pages in their order.
C18_FeedSkipsFailedEntry ==
    [][/\ pc = "rss"
       /\ {"feed_header", "feed_entry"} \subseteq template_dict
       /\ evaluate("feed_header", GlobalDict) = "ok"
       => \E w \in written' :
             /\ w.file = RssPath
             /\ w.content.ldict["entries"] = rss_rendered(pages)
      ]_vars

(* ------------------------------ the feed ------------------------------- *)

\* the day of a content file's date header, counted from 1970-01-01: the
\* configuration's 1970-1-1 without a header, 1970-01-01 for a date that is
\* not of the form YYYY-MM-DD
DayOf(lines) ==
    IF "date: 2024-01-02" \in Range(lines) THEN 19724
    ELSE IF "date: 2023-05-05" \in Range(lines) THEN 19482
    ELSE 0

\* C17: the feed has the entries of the 20 pages with the latest dates, or
\* of all pages when they are fewer, latest first, a date that does not
\* parse counting as 1970-01-01; and it is written whatever the dates.
C17_FeedNewestTwenty ==
    /\ \A w \in written :
          w.file = RssPath =>
             LET e == w.content.ldict["entries"]
                 day(j) == DayOf(LinesOf(j))
             IN /\ Len(e) = IF Len(pages) < 20 THEN Len(pages) ELSE 20
                /\ Range(e) \subseteq PageIdx
                /\ \A a, b \in 1..Len(e) :
                      a < b => e[a] # e[b] /\ day(e[a]) >= day(e[b])
                /\ \A j \in PageIdx \ Range(e) :
                      \A a \in 1..Len(e) : day(e[a]) >= day(j)
    /\ pc = "idle" => \E w \in written : w.file = RssPath

\* more than 20 pages: the first has a date that does not parse and is not
\* in the feed, the last is the latest and is the feed's first entry
C17_Witness ==
    /\ pc = "idle"
    /\ Len(pages) > 20
    /\ "date: soon" \in Range(LinesOf(1))
    /\ "date: 2024-01-02" \in Range(LinesOf(Len(pages)))
    /\ \E w \in written :
          /\ w.file = RssPath
          /\ w.content.ldict["entries"][1] = Len(pages)
          /\ 1 \notin Range(w.content.ldict["entries"])

(* --------------------------- virtual pages ----------------------------- *)

\* C19: rendering a tag page or the top page copies no media file, whatever
\* directories the source tree has.
C19_VirtualPagesCopyNothing ==
    [][pc = "dump_tags" =>
          \A w \in written' \ written : w.content.kind # "copy"]_vars

(* ----------------------- the order of rendering ------------------------ *)

\* C20: the render decision of every real page is taken before that of any
\* tag page, and the top page comes after every real page and every tag
\* page.
C20_RealThenTagsThenTop ==
    /\ (\E j \in 1..Len(tag_pages) : Decided(tag_pages[j])) =>
          \A i \in PageIdx : Decided(pages[i])
    /\ (\E j \in 1..Len(top_page) : Decided(top_page[j])) =>
          /\ \A i \in PageIdx : Decided(pages[i])
          /\ \A i \in 1..Len(tag_pages) : Decided(tag_pages[i])

\* two real pages and the first of two tag pages are decided, the second tag
\* page and the top page are not
C20_Witness ==
    /\ pc = "dump_tags"
    /\ Len(pages) >= 2
    /\ \A i \in PageIdx : Decided(pages[i])
    /\ Len(tag_pages) = 2
    /\ Decided(tag_pages[1])
    /\ ~Decided(tag_pages[2])
    /\ top_page # <<>>
    /\ ~Decided(top_page[1])

(* --------------------------- the page tree ----------------------------- *)

\* the directory of page j
DirOf(j) == DirAt(pages[j].src_path)

\* the name is <int>.<slug> with an index that makes the directory a page
IsPageName(name) ==
    Len(name) > 1 /\ name[1] \in IntStrings /\ ParseInt(name[1]) >= 0

\* the html path a subdirectory named name of page j would have as a page
CandidatePath(j, name) ==
    WithSlash(PathJoin(pages[j].html_path, SegPath(Tail(name))))

\* C21: after the link pass the children of a page are the pages that
\* page_dict holds for the candidate html paths of its immediate
\* subdirectories named <int>.<slug>, the index 0 included; a subdirectory
\* without an entry is left out.
C21_ChildrenResolved ==
    Linked =>
       \A j \in PageIdx :
          Range(pages[j].children) =
             {page_dict[CandidatePath(j, dname[c])] :
                c \in {c \in Children(DirOf(j)) :
                         /\ IsPageName(dname[c])
                         /\ CandidatePath(j, dname[c]) \in DOMAIN page_dict}}

\* the page_dict key of the first i segments of the html relative path of
\* page j
PrefixPath(j, i) ==
    [segs |-> HtmlRoot.segs \o SubSeq(pages[j].html_rel_path.segs, 1, i),
     slash |-> TRUE]

\* the lengths of the prefixes of page j's path that page_dict has
PrefixHits(j) ==
    {i \in 1..Len(pages[j].html_rel_path.segs) :
        PrefixPath(j, i) \in DOMAIN page_dict}

\* C22: after the link pass the parents of a page are the pages page_dict
\* holds for the successive prefixes of its html relative path, from the
\* root down, prefixes without an entry left out, and its depth is their
\* number: 1 for a page directory of the source root, 2 for a page
\* directory in one of those.
C22_ParentsArePrefixPages ==
    Linked =>
       \A j \in PageIdx :
          /\ Len(pages[j].parents) = Cardinality(PrefixHits(j))
          /\ \A i \in PrefixHits(j) :
                pages[j].parents[Cardinality({h \in PrefixHits(j) : h <= i})]
                   = page_dict[PrefixPath(j, i)]
          /\ pages[j].level = Len(pages[j].parents)
          /\ pages[j].ldict["level"] = Len(pages[j].parents)
          /\ Len(pages[j].src_path) = 1 => pages[j].level = 1
          /\ Len(pages[j].src_path) = 2
                /\ PagesOf(ParentOf(DirOf(j))) # {} => pages[j].level = 2

\* a page of depth 2: its parents are the page above it and itself
C22_Witness ==
    /\ Linked
    /\ \E j \in PageIdx :
          /\ Len(pages[j].parents) = 2
          /\ pages[j].parents[1] # j
          /\ pages[j].parents[2] = j
          /\ pages[pages[j].parents[1]].src_path
                = SubSeq(pages[j].src_path, 1, 1)

\* C27: after the link pass, a page that is among the children of another
\* has that one among its parents, and a page that has the page of its
\* enclosing directory among its parents is among that one's children.
C27_ParentChildConsistent ==
    Linked =>
       \A a, b \in PageIdx :
          /\ b \in Range(pages[a].children) => a \in Range(pages[b].parents)
          /\ a \in Range(pages[b].parents)
                /\ Len(pages[b].src_path) > 1
                /\ pages[a].src_path
                     = SubSeq(pages[b].src_path, 1, Len(pages[b].src_path) - 1)
                => b \in Range(pages[a].children)

(* -------------------------- the level buckets -------------------------- *)

\* the bucket holds the pages of depth lvl, each once, in the order of their
\* html paths
IsBucketOf(bucket, lvl) ==
    /\ Range(bucket) = {j \in PageIdx : pages[j].level = lvl}
    /\ Len(bucket) = Cardinality(Range(bucket))
    /\ SortedByHtmlPath(bucket)

\* C23 as stated: after the link pass every page is in the bucket of its
\* depth, each bucket holds the pages of its depth, and each bucket is in
\* the order of the html paths.
C23_EveryPageInItsBucket ==
    Linked =>
       /\ IsBucketOf(level1, 1)
       /\ IsBucketOf(level2, 2)
       /\ \A j \in PageIdx : j \in Range(level1) \cup Range(level2)

\* C23, amended: after the link pass level1 holds the pages of depth 1 and
\* level2 those of depth 2, each in the order of the html paths; a page of
\* another depth is in neither.
C23_LevelBuckets ==
    Linked =>
       /\ IsBucketOf(level1, 1)
       /\ IsBucketOf(level2, 2)
       /\ \A j \in PageIdx :
             pages[j].level \notin {1, 2} =>
                j \notin Range(level1) \cup Range(level2)

\* a chain of pages: the first is level1, the second level2, and the third,
\* of depth 3, is in neither
C23_Witness ==
    /\ Linked
    /\ Len(pages) > 2
    /\ pages[3].level = 3
    /\ level1 = <<1>>
    /\ level2 = <<2>>

(* ------------------------- the trailing slash -------------------------- *)

\* C24: the html path of every PageUnit, the tag pages and the top page
\* included, ends with '/'.
C24_HtmlPathEndsWithSlash ==
    \A j \in 1..Len(AllUnits) : AllUnits[j].html_path.slash

(* ------------------------- the template fallback ----------------------- *)

\* C25: a page whose selected template is not loaded is linked with the
\* "leaf" template and the invocation goes on; it ends in the link pass,
\* with no file written, only when "leaf" is not loaded either.
C25_TemplateFallback ==
    /\ \A j \in PageIdx :
          Populated(j) /\ pages[j].template_name \notin template_dict =>
             pages[j].template = "leaf" /\ "leaf" \in template_dict
    /\ \A j \in PageIdx :
          Populated(j) /\ pages[j].template_name \in template_dict =>
             pages[j].template = pages[j].template_name
    /\ pc = "exit" =>
          /\ "leaf" \notin template_dict
          /\ k \in PageIdx
          /\ written = {}
          /\ dest = started.dest
          /\ tag_pages = <<>> /\ top_page = <<>>

\* an invocation is over in which a page with the header "template: wide"
\* and a page with children, for want of a gallery template, were rendered
\* with the leaf template
C25_Witness ==
    /\ pc = "idle"
    /\ run = MaxRuns
    /\ "gallery" \notin template_dict
    /\ \E i, j \in PageIdx :
          /\ pages[i].template_name = "wide"
          /\ pages[j].template_name = "gallery"
          /\ \A h \in {i, j} :
                /\ pages[h].template = "leaf"
                /\ DestFile(pages[h]) \in DOMAIN dest
                /\ dest[DestFile(pages[h])].content.template = "leaf"

----------------------------------------------------------------------------
\* C26: no two distinct pages of one invocation, real pages, tag pages and
\* the top page together, have the same destination file.
C26_DestFilesUnique ==
    Linked =>
       \A i, j \in 1..Len(AllUnits) :
          i # j => DestFile(AllUnits[i]) # DestFile(AllUnits[j])

----------------------------------------------------------------------------
\* C30: when the render pass is over, ContentTree.updated holds every output
\* file written or copied in the invocation and no other file, in a full
\* as in an incremental invocation.
C30_UpdatedIsWhatWasWritten ==
    pc = "rss" => Range(updated) = {w.file : w \in written}

----------------------------------------------------------------------------
\* the header fields of the content file of page j
HeaderOf(j) == parse_content_file(pages[j].content_file)

\* C29: no header line of the content file replaces a derived key of a real
\* page's context: when the page is rendered, html_path, permalink, parents,
\* children, tags, level and content_html are the values of the link pass,
\* also when the file has a header line with that key.
C29_DerivedKeysNotOverridden ==
    \A j \in PageIdx :
       Populated(j) =>
          LET ldict == pages[j].ldict
          IN /\ ldict["html_path"] = pages[j].html_path
             /\ ldict["permalink"] =
                   <<"http://rotormind.com", pages[j].html_path>>
             /\ ldict["parents"] = pages[j].parents
             /\ ldict["children"] = pages[j].children
             /\ ldict["tags"] = pages[j].tags
             /\ ldict["level"] = Len(pages[j].parents)
             /\ ldict["content_html"] = markdown(ldict["content_raw"])

----------------------------------------------------------------------------
\* what a full invocation writes to the file of PageUnit u
FullOutput(u) == render(u, dest, {}, FALSE).dest[DestFile(u)].content

\* C28: after an incremental invocation on the destination tree an earlier
\* invocation left, the content files edited in between, the file of every
\* page holds what a full invocation on the source as it is now writes there.
C28_IncrementalEqualsFull ==
    /\ pc = "idle"
    /\ started.mode = "incremental"
    /\ prev.mode # "none"
    /\ started.dest = prev.left
    => \A i \in 1..Len(AllUnits) :
          /\ DestFile(AllUnits[i]) \in DOMAIN dest
          /\ dest[DestFile(AllUnits[i])].content = FullOutput(AllUnits[i])

====
